---- MODULE Spec2Model ----
(***************************************************************************)
(* Model of popcorn-cli's `submit` command (src/main.py): one sequential   *)
(* flow that checks the file, fetches the leaderboards, prompts for a      *)
(* leaderboard, a runner and a GPU, posts the file and reports.            *)
(*                                                                         *)
(* Strings are sequences of code points, bytes are numbers 0..255.         *)
(* The HTTP server, the disk, the locale and the user are the environment: *)
(* their answers are drawn from the small sets below.                      *)
(***************************************************************************)
EXTENDS Integers, Sequences, FiniteSets, TLC

VARIABLES
    pc,                   \* position of _submit
    fileExists,           \* os.path.exists(filepath) when the flow starts
    filepath,             \* the command-line argument
    exitCode,             \* process exit status, -1 while running
    console,              \* what console.print has printed, in order
    calls,                \* HTTP requests issued, in order
    inflight,             \* HTTP requests issued and not yet answered
    lbResp,               \* the server's answer to GET /leaderboards
    gpuResp,              \* the server's answer to GET .../gpus
    submitResp,           \* the server's answer to the POST
    leaderboard_names,
    leaderboard_idx,
    selected_leaderboard,
    runner_idx,
    selected_runner,
    gpus,
    gpu_idx,
    selected_gpu,
    result,               \* what submit_solution returned
    promptErr,            \* the current prompt has rejected an input
    raised,               \* an exception reached the handler of _submit
    fileBytes             \* the bytes on disk when submit_solution read them

vars == <<pc, fileExists, filepath, exitCode, console, calls, inflight,
          lbResp, gpuResp, submitResp, leaderboard_names, leaderboard_idx,
          selected_leaderboard, runner_idx, selected_runner, gpus, gpu_idx,
          selected_gpu, result, promptErr, raised, fileBytes>>

----------------------------------------------------------------------------
(* Bounds of the model *)

MaxLeaderboards == 2      \* longest leaderboard list the server returns
MaxGpus == 2              \* longest GPU list the server returns
MaxFileLen == 1           \* longest solution file, in bytes
MaxInputLen == 2          \* longest line the user types at a prompt

----------------------------------------------------------------------------
(* Text *)

SLASH == <<47>>

\* "http://localhost:8000"
BASE_URL == <<104, 116, 116, 112, 58, 47, 47, 108, 111, 99, 97, 108, 104,
              111, 115, 116, 58, 56, 48, 48, 48>>

\* "leaderboards", "gpus"
LEADERBOARDS == <<108, 101, 97, 100, 101, 114, 98, 111, 97, 114, 100, 115>>
GPUS == <<103, 112, 117, 115>>

\* str.lower on one code point (the model's names are ASCII)
LowerChar(c) == IF c >= 65 /\ c <= 90 THEN c + 32 ELSE c

\* str.lower
Lower(s) == [i \in 1..Len(s) |-> LowerChar(s[i])]

\* str(i) for i >= 0
RECURSIVE Str(_)
Str(i) == IF i < 10 THEN <<48 + i>> ELSE Str(i \div 10) \o <<48 + (i % 10)>>

\* Python values that come out of response.json(): a str or a number.
\* v is the text that an f-string or print shows for the value.
PyStr(s) == [t |-> "str", v |-> s]
PyNum(n) == [t |-> "num", v |-> Str(n)]
None == [t |-> "None", v |-> <<>>]

\* f"{x}"
Fmt(x) == x.v

\* runners = ["modal", "github"]
runners == << PyStr(<<109, 111, 100, 97, 108>>),
             PyStr(<<103, 105, 116, 104, 117, 98>>) >>

\* x.lower() exists only on a str; on a number it raises AttributeError
CanLower(x) == x.t = "str"
LowerVal(x) == PyStr(Lower(x.v))

\* list[i] with Python's 0-based index, negative indices counting from the end
IndexOk(list, i) == i >= 0 - Len(list) /\ i < Len(list)
PyIndex(list, i) == IF i < 0 THEN list[Len(list) + i + 1] ELSE list[i + 1]

\* Sequences over S of length lo..hi
SeqsLen(S, lo, hi) == UNION {[1..n -> S] : n \in lo..hi}

----------------------------------------------------------------------------
(* The file: os.path.basename, open(filepath, "r").read(), and the encoding *)
(* of the str content into the multipart body                               *)

\* position of the last "/" of p, 0 when there is none
LastSlash(p) ==
    IF \E i \in 1..Len(p) : p[i] = 47
    THEN CHOOSE i \in 1..Len(p) : p[i] = 47 /\ \A j \in (i+1)..Len(p) : p[j] # 47
    ELSE 0

\* os.path.basename
basename(p) == SubSeq(p, LastSlash(p) + 1, Len(p))

\* A path that ends in "/" and exists names a directory: open() raises
NamesDirectory(p) == Len(p) > 0 /\ p[Len(p)] = 47

\* Decoding of the file's bytes by open(..., "r"), in the locale's encoding
Encodings == {"utf-8", "latin-1"}
CanDecode(bytes, enc) == enc = "latin-1" \/ \A i \in 1..Len(bytes) : bytes[i] < 128
\* (ASCII in UTF-8 and every byte in Latin-1 decode to the code point of the
\* same number)
Decode(bytes, enc) == bytes

\* Universal newlines of text mode: "\r\n" (13, 10) and "\r" (13) are read
\* as "\n" (10)
RECURSIVE TranslateNewlines(_)
TranslateNewlines(s) ==
    IF s = <<>> THEN <<>>
    ELSE IF s[1] = 13
         THEN IF Len(s) >= 2 /\ s[2] = 10
              THEN <<10>> \o TranslateNewlines(SubSeq(s, 3, Len(s)))
              ELSE <<10>> \o TranslateNewlines(Tail(s))
         ELSE <<s[1]>> \o TranslateNewlines(Tail(s))

\* f.read() of a file opened with "r"
ReadText(bytes, enc) == TranslateNewlines(Decode(bytes, enc))

\* UTF-8 of a str (code points below 2048), as httpx sends a str file content
RECURSIVE EncodeUtf8(_)
EncodeUtf8(s) ==
    IF s = <<>> THEN <<>>
    ELSE (IF s[1] < 128 THEN <<s[1]>>
          ELSE <<192 + (s[1] \div 64), 128 + (s[1] % 64)>>)
         \o EncodeUtf8(Tail(s))

----------------------------------------------------------------------------
(* URLs *)

\* f"{BASE_URL}/leaderboards"
LeaderboardsUrl == BASE_URL \o SLASH \o LEADERBOARDS

\* f"{BASE_URL}/{leaderboard}/{runner}/gpus" of names lower-cased first
GpusUrl_LowerCased(leaderboard, runner) ==
    BASE_URL \o SLASH \o Lower(Fmt(leaderboard)) \o SLASH \o Lower(Fmt(runner))
             \o SLASH \o GPUS

\* f"{BASE_URL}/{leaderboard}/{runner}/gpus"
GpusUrl(leaderboard, runner) ==
    BASE_URL \o SLASH \o Fmt(leaderboard) \o SLASH \o Fmt(runner) \o SLASH \o GPUS

\* f"{BASE_URL}/{leaderboard}/{runner}/{gpu}"
SubmitUrl(leaderboard, runner, gpu) ==
    BASE_URL \o SLASH \o Fmt(leaderboard) \o SLASH \o Fmt(runner) \o SLASH \o Fmt(gpu)

Request(method, url, filename, content) ==
    [method |-> method, url |-> url, filename |-> filename, content |-> content]

----------------------------------------------------------------------------
(* rich's IntPrompt.ask(prompt, choices=[...]) *)

\* [str(i) for i in range(0, n + 1)]: choices that start at 0
Choices_FromZero(n) == [i \in 1..(n + 1) |-> Str(i - 1)]

\* choices=[str(i) for i in range(1, n + 1)]
Choices(n) == [i \in 1..n |-> Str(i)]

\* value.strip(): spaces (32) removed at both ends
RECURSIVE LStrip(_)
LStrip(s) == IF s # <<>> /\ s[1] = 32 THEN LStrip(Tail(s)) ELSE s

RECURSIVE RStrip(_)
RStrip(s) ==
    IF s # <<>> /\ s[Len(s)] = 32 THEN RStrip(SubSeq(s, 1, Len(s) - 1)) ELSE s

Strip(s) == RStrip(LStrip(s))

\* int(value) succeeds on a non-empty run of digits (the model's inputs have
\* no sign and no underscore); anything else is a ValueError
IsInt(s) == s # <<>> /\ \A i \in 1..Len(s) : s[i] >= 48 /\ s[i] <= 57

RECURSIVE ParseInt(_)
ParseInt(s) ==
    IF s = <<>> THEN 0
    ELSE 10 * ParseInt(SubSeq(s, 1, Len(s) - 1)) + (s[Len(s)] - 48)

\* check_choice: value.strip() in self.choices
CheckChoice(s, choices) == \E i \in DOMAIN choices : choices[i] = Strip(s)

\* process_response: the input is returned iff it parses as an int and is one
\* of the choices; otherwise the prompt prints an error and asks again
Accepts(input, choices) == IsInt(Strip(input)) /\ CheckChoice(input, choices)

PromptValue(input) == ParseInt(Strip(input))

----------------------------------------------------------------------------
(* The environment *)

\* digits "0".."3", "x" and " "
InputChars == {32, 48, 49, 50, 51, 120}
PromptInputs == SeqsLen(InputChars, 0, MaxInputLen)

\* "d/f", "f", "d/"
FilePaths == { <<100, 47, 102>>, <<102>>, <<100, 47>> }

\* bytes "a", "\r", "\n" and 0xFF
FileByteValues == {97, 13, 10, 255}
FileContents == SeqsLen(FileByteValues, 0, MaxFileLen)

Statuses == {200, 404}

\* leaderboards "Mm" and "c1"; an object without "name"
LbItems == { [hasName |-> TRUE, name |-> PyStr(<<77, 109>>)],
             [hasName |-> TRUE, name |-> PyStr(<<99, 49>>)],
             [hasName |-> FALSE, name |-> None] }

\* GPUs "H1" and the number 7
GpuItems == { PyStr(<<72, 49>>), PyNum(7) }

\* A response: a connection failure (no status), or a status with a body that
\* is malformed JSON, the JSON null, or (kind "json") an array / an object
NoResp == [status |-> 0, kind |-> "none", items |-> <<>>]
ConnError == [status |-> 0, kind |-> "connerr", items |-> <<>>]

ListResponses(Items, maxLen) ==
    {ConnError}
    \cup {[status |-> s, kind |-> "json", items |-> l] :
             s \in Statuses, l \in SeqsLen(Items, 0, maxLen)}
    \cup {[status |-> 200, kind |-> k, items |-> <<>>] : k \in {"malformed", "null"}}

SubmitResponses ==
    {ConnError}
    \cup {[status |-> s, kind |-> "json", items |-> <<>>] : s \in Statuses}
    \cup {[status |-> 200, kind |-> k, items |-> <<>>] : k \in {"malformed", "null"}}

----------------------------------------------------------------------------
(* console.print *)

Msg(tag) == [tag |-> tag, idx |-> 0, text |-> <<>>]

\* f"{idx}. {name}"
Item(i, text) == [tag |-> "item", idx |-> i, text |-> text]

\* for idx, name in enumerate(list, 1): console.print(f"{idx}. {name}")
Menu(heading, list) ==
    <<Msg(heading)>> \o [i \in 1..Len(list) |-> Item(i, Fmt(list[i]))]

Printed(tag) == \E i \in 1..Len(console) : console[i].tag = tag

----------------------------------------------------------------------------
(* The flow *)

Unset == [t |-> "unset", v |-> <<>>]
Dict == [t |-> "dict", v |-> <<>>]

Init ==
    /\ pc = "start"
    /\ fileExists \in BOOLEAN
    /\ filepath \in FilePaths
    /\ exitCode = -1
    /\ console = <<>>
    /\ calls = <<>>
    /\ inflight = 0
    /\ lbResp = NoResp
    /\ gpuResp = NoResp
    /\ submitResp = NoResp
    /\ leaderboard_names = <<>>
    /\ leaderboard_idx = 0
    /\ selected_leaderboard = Unset
    /\ runner_idx = 0
    /\ selected_runner = Unset
    /\ gpus = <<>>
    /\ gpu_idx = 0
    /\ selected_gpu = Unset
    /\ result = Unset
    /\ promptErr = FALSE
    /\ raised = FALSE
    /\ fileBytes = <<>>

http == <<calls, inflight>>
responses == <<lbResp, gpuResp, submitResp>>
lbVars == <<leaderboard_names, leaderboard_idx, selected_leaderboard>>
runnerVars == <<runner_idx, selected_runner>>
gpuVars == <<gpus, gpu_idx, selected_gpu>>
args == <<fileExists, filepath>>

\* sys.exit(code): SystemExit is not an Exception, so the handler of _submit
\* lets it through and the process ends with the code
SysExit(code) == pc' = "exited" /\ exitCode' = code

\* except Exception as e: print the error, sys.exit(0)
HandleException_ExitZero ==
    /\ console' = Append(console, Msg("error"))
    /\ raised' = TRUE
    /\ SysExit(0)

\* except Exception as e: print the error, sys.exit(1)
HandleException ==
    /\ console' = Append(console, Msg("error"))
    /\ raised' = TRUE
    /\ SysExit(1)

\* if not os.path.exists(filepath): print, sys.exit(1) -- without the exit
ValidateFile_NoExit ==
    /\ pc = "start"
    /\ console' = IF fileExists THEN console
                  ELSE Append(console, Msg("file_not_found"))
    /\ pc' = "fetch_leaderboards"
    /\ UNCHANGED <<exitCode, raised, http, responses, lbVars, runnerVars,
                   gpuVars, result, promptErr, fileBytes, args>>

\* if not os.path.exists(filepath): print, sys.exit(1)
ValidateFile ==
    /\ pc = "start"
    /\ IF fileExists
       THEN pc' = "fetch_leaderboards" /\ UNCHANGED <<console, exitCode>>
       ELSE console' = Append(console, Msg("file_not_found")) /\ SysExit(1)
    /\ UNCHANGED <<raised, http, responses, lbVars, runnerVars, gpuVars,
                   result, promptErr, fileBytes, args>>

\* fetch_leaderboards: client.get(f"{BASE_URL}/leaderboards"), awaited
FetchLeaderboardsSend ==
    /\ pc = "fetch_leaderboards"
    /\ calls' = Append(calls, Request("GET", LeaderboardsUrl, <<>>, <<>>))
    /\ inflight' = inflight + 1
    /\ pc' = "await_leaderboards"
    /\ UNCHANGED <<exitCode, console, raised, responses, lbVars, runnerVars,
                   gpuVars, result, promptErr, fileBytes, args>>

\* if response.status_code != 200 (either fetch)
FetchFailed_Never(status) == FALSE

LeaderboardsFetchFailed(status) == status # 200

GpusFetchFailed(status) == status # 200

\* response.json() raises on a body that is not JSON
JsonRaises(resp) == resp.kind = "malformed"

\* [x["name"] for x in leaderboards] raises on null (not iterable) and on an
\* element without "name"
NamesRaise(resp) ==
    resp.kind = "null" \/ \E i \in 1..Len(resp.items) : ~resp.items[i].hasName

Names(items) == [i \in 1..Len(items) |-> items[i].name]

\* The response to GET /leaderboards arrives: the rest of fetch_leaderboards,
\* the list of names and the leaderboard menu, up to the prompt
FetchLeaderboardsRecv ==
    /\ pc = "await_leaderboards"
    /\ \E resp \in ListResponses(LbItems, MaxLeaderboards) :
        /\ lbResp' = resp
        /\ inflight' = inflight - 1
        /\ IF resp.kind = "connerr"
           THEN HandleException /\ UNCHANGED leaderboard_names
           ELSE IF LeaderboardsFetchFailed(resp.status)
           THEN /\ console' = Append(console, Msg("fetch_leaderboards_failed"))
                /\ SysExit(1)
                /\ UNCHANGED <<raised, leaderboard_names>>
           ELSE IF JsonRaises(resp) \/ NamesRaise(resp)
           THEN HandleException /\ UNCHANGED leaderboard_names
           ELSE /\ leaderboard_names' = Names(resp.items)
                /\ console' = console \o Menu("leaderboards", Names(resp.items))
                /\ pc' = "ask_leaderboard"
                /\ UNCHANGED <<exitCode, raised>>
    /\ UNCHANGED <<calls, gpuResp, submitResp, leaderboard_idx,
                   selected_leaderboard, runnerVars, gpuVars, result, promptErr,
                   fileBytes, args>>

\* IntPrompt.ask("Select leaderboard number", choices=...) and
\* selected_leaderboard = leaderboard_names[leaderboard_idx - 1], then the
\* runner menu
SelectLeaderboard ==
    /\ pc = "ask_leaderboard"
    /\ \E input \in PromptInputs :
        IF ~Accepts(input, Choices(Len(leaderboard_names)))
        THEN /\ promptErr' = TRUE
             /\ UNCHANGED <<pc, exitCode, console, raised, lbVars>>
        ELSE /\ promptErr' = FALSE
             /\ leaderboard_idx' = PromptValue(input)
             /\ UNCHANGED leaderboard_names
             /\ IF IndexOk(leaderboard_names, PromptValue(input) - 1)
                THEN /\ selected_leaderboard' =
                            PyIndex(leaderboard_names, PromptValue(input) - 1)
                     /\ console' = console \o Menu("runners", runners)
                     /\ pc' = "ask_runner"
                     /\ UNCHANGED <<exitCode, raised>>
                ELSE HandleException /\ UNCHANGED selected_leaderboard
    /\ UNCHANGED <<http, responses, runnerVars, gpuVars, result, fileBytes, args>>

\* IntPrompt.ask("Select runner number", choices=["1", "2"]) and
\* selected_runner = runners[runner_idx - 1]
SelectRunner ==
    /\ pc = "ask_runner"
    /\ \E input \in PromptInputs :
        IF ~Accepts(input, <<Str(1), Str(2)>>)
        THEN /\ promptErr' = TRUE
             /\ UNCHANGED <<pc, exitCode, console, raised, runnerVars>>
        ELSE /\ promptErr' = FALSE
             /\ runner_idx' = PromptValue(input)
             /\ IF IndexOk(runners, PromptValue(input) - 1)
                THEN /\ selected_runner' = PyIndex(runners, PromptValue(input) - 1)
                     /\ pc' = "fetch_gpus"
                     /\ UNCHANGED <<exitCode, console, raised>>
                ELSE HandleException /\ UNCHANGED selected_runner
    /\ UNCHANGED <<http, responses, lbVars, gpuVars, result, fileBytes, args>>

\* fetch_available_gpus(selected_leaderboard, selected_runner):
\* client.get(f"{BASE_URL}/{leaderboard}/{runner}/gpus"), awaited
FetchGpusSend ==
    /\ pc = "fetch_gpus"
    /\ calls' = Append(calls, Request("GET",
                       GpusUrl(selected_leaderboard, selected_runner), <<>>, <<>>))
    /\ inflight' = inflight + 1
    /\ pc' = "await_gpus"
    /\ UNCHANGED <<exitCode, console, raised, responses, lbVars, runnerVars,
                   gpuVars, result, promptErr, fileBytes, args>>

\* The response to GET .../gpus arrives: the rest of fetch_available_gpus and
\* the GPU menu, up to the prompt; enumerate(gpus, 1) raises on null
FetchGpusRecv ==
    /\ pc = "await_gpus"
    /\ \E resp \in ListResponses(GpuItems, MaxGpus) :
        /\ gpuResp' = resp
        /\ inflight' = inflight - 1
        /\ IF resp.kind = "connerr"
           THEN HandleException /\ UNCHANGED gpus
           ELSE IF GpusFetchFailed(resp.status)
           THEN /\ console' = Append(console, Msg("fetch_gpus_failed"))
                /\ SysExit(1)
                /\ UNCHANGED <<raised, gpus>>
           ELSE IF JsonRaises(resp) \/ resp.kind = "null"
           THEN HandleException /\ UNCHANGED gpus
           ELSE /\ gpus' = resp.items
                /\ console' = console \o Menu("gpus", resp.items)
                /\ pc' = "ask_gpu"
                /\ UNCHANGED <<exitCode, raised>>
    /\ UNCHANGED <<calls, lbResp, submitResp, lbVars, runnerVars, gpu_idx,
                   selected_gpu, result, promptErr, fileBytes, args>>

\* IntPrompt.ask("Select GPU number", choices=...) and
\* selected_gpu = gpus[gpu_idx - 1]
SelectGpu ==
    /\ pc = "ask_gpu"
    /\ \E input \in PromptInputs :
        IF ~Accepts(input, Choices(Len(gpus)))
        THEN /\ promptErr' = TRUE
             /\ UNCHANGED <<pc, exitCode, console, raised, gpuVars>>
        ELSE /\ promptErr' = FALSE
             /\ gpu_idx' = PromptValue(input)
             /\ UNCHANGED gpus
             /\ IF IndexOk(gpus, PromptValue(input) - 1)
                THEN /\ selected_gpu' = PyIndex(gpus, PromptValue(input) - 1)
                     /\ pc' = "normalize"
                     /\ UNCHANGED <<exitCode, console, raised>>
                ELSE HandleException /\ UNCHANGED selected_gpu
    /\ UNCHANGED <<http, responses, lbVars, runnerVars, result, fileBytes, args>>

\* The user closes the input at a prompt: input() raises EOFError
PromptEOF ==
    /\ pc \in {"ask_leaderboard", "ask_runner", "ask_gpu"}
    /\ HandleException
    /\ UNCHANGED <<http, responses, lbVars, runnerVars, gpuVars, result,
                   promptErr, fileBytes, args>>

\* selected_leaderboard = selected_leaderboard.lower(), and the same for the
\* runner and the GPU
Normalize ==
    /\ pc = "normalize"
    /\ IF CanLower(selected_leaderboard) /\ CanLower(selected_runner)
          /\ CanLower(selected_gpu)
       THEN /\ selected_leaderboard' = LowerVal(selected_leaderboard)
            /\ selected_runner' = LowerVal(selected_runner)
            /\ selected_gpu' = LowerVal(selected_gpu)
            /\ pc' = "submit"
            /\ UNCHANGED <<exitCode, console, raised>>
       ELSE /\ HandleException
            /\ selected_leaderboard' =
                  IF CanLower(selected_leaderboard)
                  THEN LowerVal(selected_leaderboard) ELSE selected_leaderboard
            /\ selected_runner' =
                  IF CanLower(selected_leaderboard) /\ CanLower(selected_runner)
                  THEN LowerVal(selected_runner) ELSE selected_runner
            /\ UNCHANGED selected_gpu
    /\ UNCHANGED <<http, responses, leaderboard_names, leaderboard_idx,
                   runner_idx, gpus, gpu_idx, result, promptErr, fileBytes, args>>

\* if response.status_code != 200 (submit_solution), never taken
SubmitFailed_Never(status) == FALSE

\* if response.status_code != 200 (submit_solution)
SubmitFailed(status) == status # 200

\* response.json(): the JSON null is Python's None, an object is a dict
ParseJson(resp) == IF resp.kind = "null" THEN None ELSE Dict

\* submit_solution up to the awaited client.post: the file is read in text
\* mode, and posted under its base name
SubmitSend ==
    /\ pc = "submit"
    /\ \E bytes \in FileContents, enc \in Encodings, ioError \in BOOLEAN :
        IF ioError \/ NamesDirectory(filepath) \/ ~CanDecode(bytes, enc)
        THEN HandleException /\ UNCHANGED <<http, fileBytes>>
        ELSE /\ fileBytes' = bytes
             /\ calls' = Append(calls,
                    Request("POST",
                            SubmitUrl(selected_leaderboard, selected_runner,
                                      selected_gpu),
                            basename(filepath),
                            EncodeUtf8(ReadText(bytes, enc))))
             /\ inflight' = inflight + 1
             /\ pc' = "await_submit"
             /\ UNCHANGED <<exitCode, console, raised>>
    /\ UNCHANGED <<responses, lbVars, runnerVars, gpuVars, result, promptErr, args>>

\* The response to the POST arrives: the rest of submit_solution
SubmitRecv ==
    /\ pc = "await_submit"
    /\ \E resp \in SubmitResponses :
        /\ submitResp' = resp
        /\ inflight' = inflight - 1
        /\ IF resp.kind = "connerr"
           THEN HandleException /\ UNCHANGED result
           ELSE IF SubmitFailed(resp.status)
           THEN /\ console' = Append(console, Msg("submit_failed"))
                /\ result' = None
                /\ pc' = "report"
                /\ UNCHANGED <<exitCode, raised>>
           ELSE IF JsonRaises(resp)
           THEN HandleException /\ UNCHANGED result
           ELSE /\ result' = ParseJson(resp)
                /\ pc' = "report"
                /\ UNCHANGED <<exitCode, console, raised>>
    /\ UNCHANGED <<calls, lbResp, gpuResp, lbVars, runnerVars, gpuVars,
                   promptErr, fileBytes, args>>

\* if result is None: print the failure and return; otherwise print the
\* result and the success message. _submit returns and the process ends with 0
Report ==
    /\ pc = "report"
    /\ console' = IF result = None
                  THEN Append(console, Msg("submit_failed"))
                  ELSE console \o <<Msg("result_heading"), Msg("result_json"),
                                    Msg("success")>>
    /\ SysExit(0)
    /\ UNCHANGED <<raised, http, responses, lbVars, runnerVars, gpuVars, result,
                   promptErr, fileBytes, args>>

Next ==
    \/ ValidateFile
    \/ FetchLeaderboardsSend
    \/ FetchLeaderboardsRecv
    \/ SelectLeaderboard
    \/ SelectRunner
    \/ FetchGpusSend
    \/ FetchGpusRecv
    \/ SelectGpu
    \/ PromptEOF
    \/ Normalize
    \/ SubmitSend
    \/ SubmitRecv
    \/ Report

Spec == Init /\ [][Next]_vars

----------------------------------------------------------------------------
(* Properties *)

\* The server answered the request with a status (no connection failure)
Answered(resp) == resp.kind \in {"json", "malformed", "null"}

Exited == pc = "exited"
ExitedNonzero == Exited /\ exitCode > 0

\* The element the user picked, as the server returned it
ChosenLeaderboard == lbResp.items[leaderboard_idx].name
ChosenRunner == runners[runner_idx]
ChosenGpu == gpuResp.items[gpu_idx]

PastLeaderboardPrompt ==
    pc \in {"ask_runner", "fetch_gpus", "await_gpus", "ask_gpu", "normalize",
            "submit", "await_submit", "report"}
PastRunnerPrompt ==
    pc \in {"fetch_gpus", "await_gpus", "ask_gpu", "normalize", "submit",
            "await_submit", "report"}
PastGpuPrompt == pc \in {"normalize", "submit", "await_submit", "report"}
PastNormalize == pc \in {"submit", "await_submit", "report", "exited"}

\* C1: if the file does not exist when the flow starts, the process exits
\* with a nonzero status as its first step and no HTTP request is ever issued.
C1_MissingFileNoHttp ==
    ~fileExists =>
        /\ calls = <<>>
        /\ inflight = 0
        /\ pc \in {"start", "exited"}
        /\ pc = "exited" => exitCode > 0

C1_Witness == ~fileExists /\ Exited /\ Printed("file_not_found")

\* C2: a leaderboard fetch or a GPU fetch answered with a status other than
\* 200 ends the process with a nonzero status, and the failed request is the
\* last one issued: no GPU fetch and no submission after a failed leaderboard
\* fetch, no submission after a failed GPU fetch.
C2_FetchFailureIsFatal ==
    /\ (Answered(lbResp) /\ lbResp.status # 200) =>
            ExitedNonzero /\ Len(calls) = 1 /\ inflight = 0
    /\ (Answered(gpuResp) /\ gpuResp.status # 200) =>
            ExitedNonzero /\ Len(calls) = 2 /\ inflight = 0

C2_Witness ==
    /\ Answered(gpuResp) /\ gpuResp.status # 200
    /\ Exited /\ Printed("fetch_gpus_failed")

\* C3: a submission answered with a status other than 200 prints the failure
\* message, and neither the JSON result nor the success message is printed.
C3_SubmitFailureReported ==
    (Answered(submitResp) /\ submitResp.status # 200) =>
        /\ Printed("submit_failed")
        /\ ~Printed("result_heading")
        /\ ~Printed("result_json")
        /\ ~Printed("success")

C3_Witness == Answered(submitResp) /\ submitResp.status # 200 /\ Exited

\* C4: the process ends with a nonzero status exactly when the file is
\* missing, a listing fetch was answered with a status other than 200, or an
\* exception was raised; every other run, a submission answered with a status
\* other than 200 included, ends with status 0.
C4_ExitStatus ==
    /\ Exited <=> exitCode # -1
    /\ Exited =>
        /\ exitCode \in {0, 1}
        /\ exitCode # 0 <=>
              \/ ~fileExists
              \/ Answered(lbResp) /\ lbResp.status # 200
              \/ Answered(gpuResp) /\ gpuResp.status # 200
              \/ raised

C4_Witness ==
    /\ Exited /\ exitCode = 0
    /\ Answered(submitResp) /\ submitResp.status # 200

\* The base name of a path: what follows its last "/"
IsBaseNameOf(name, path) ==
    /\ \A i \in 1..Len(name) : name[i] # 47
    /\ \E k \in 0..Len(path) :
        /\ SubSeq(path, k + 1, Len(path)) = name
        /\ k = 0 \/ path[k] = 47

\* C5: the POST goes to the lower-cased /{leaderboard}/{runner}/{gpu} of the
\* three selected strings, and its `file` field carries the base name of the
\* path and exactly the bytes of the file.
C5_PostCarriesFile ==
    Len(calls) = 3 =>
        /\ calls[3].method = "POST"
        /\ calls[3].url = BASE_URL \o SLASH \o Lower(ChosenLeaderboard.v)
                            \o SLASH \o Lower(ChosenRunner.v)
                            \o SLASH \o Lower(ChosenGpu.v)
        /\ IsBaseNameOf(calls[3].filename, filepath)
        /\ calls[3].content = fileBytes

\* C6: at each of the three menus the user's answer i is accepted only if it
\* is in 1..n, and the selected element is the i-th (1-based) element of the
\* list as the server returned it (of the fixed list for the runner); the flow
\* is never past a prompt with an index outside 1..n.
C6_SelectionIsIndexed ==
    /\ PastLeaderboardPrompt => selected_leaderboard # Unset
    /\ PastRunnerPrompt => selected_runner # Unset
    /\ PastGpuPrompt => selected_gpu # Unset
    /\ selected_leaderboard # Unset =>
        /\ Answered(lbResp) /\ leaderboard_idx \in 1..Len(lbResp.items)
        /\ Len(leaderboard_names) = Len(lbResp.items)
        /\ \/ selected_leaderboard = ChosenLeaderboard
           \/ PastNormalize /\ selected_leaderboard = LowerVal(ChosenLeaderboard)
    /\ selected_runner # Unset =>
        /\ runner_idx \in 1..Len(runners)
        /\ \/ selected_runner = ChosenRunner
           \/ PastNormalize /\ selected_runner = LowerVal(ChosenRunner)
    /\ selected_gpu # Unset =>
        /\ Answered(gpuResp) /\ gpu_idx \in 1..Len(gpuResp.items)
        /\ gpus = gpuResp.items
        /\ \/ selected_gpu = ChosenGpu
           \/ PastNormalize /\ selected_gpu = LowerVal(ChosenGpu)

C6_Witness ==
    /\ pc = "normalize"
    /\ Len(leaderboard_names) = 2 /\ leaderboard_idx = 2
    /\ runner_idx = 2
    /\ Len(gpus) = 2 /\ gpu_idx = 1

\* C7: the GPU fetch goes to /{leaderboard}/{runner}/gpus with the leaderboard
\* name in the case the server returned it; the three strings are lower-cased
\* only after the GPU selection and before the submission, so the leaderboard
\* segment of the two paths may differ in case.
C7_GpuFetchUsesOriginalCase ==
    /\ Len(calls) >= 2 =>
        /\ calls[2].method = "GET"
        /\ calls[2].url = BASE_URL \o SLASH \o ChosenLeaderboard.v
                            \o SLASH \o ChosenRunner.v \o SLASH \o GPUS
    /\ pc \in {"ask_runner", "fetch_gpus", "await_gpus", "ask_gpu", "normalize"}
        => selected_leaderboard = ChosenLeaderboard
    /\ pc \in {"fetch_gpus", "await_gpus", "ask_gpu", "normalize"}
        => selected_runner = ChosenRunner
    /\ pc = "normalize" => selected_gpu = ChosenGpu
    /\ Len(calls) = 3 =>
        /\ selected_leaderboard = LowerVal(ChosenLeaderboard)
        /\ selected_runner = LowerVal(ChosenRunner)
        /\ selected_gpu = LowerVal(ChosenGpu)
        /\ calls[3].url = BASE_URL \o SLASH \o Lower(ChosenLeaderboard.v)
                            \o SLASH \o Lower(ChosenRunner.v)
                            \o SLASH \o Lower(ChosenGpu.v)

\* A run whose two paths differ in the case of the leaderboard segment
C7_Witness ==
    /\ Len(calls) = 3
    /\ ChosenLeaderboard.v # Lower(ChosenLeaderboard.v)
    /\ SubSeq(calls[2].url, 1, Len(BASE_URL) + 3)
         # SubSeq(calls[3].url, 1, Len(BASE_URL) + 3)

EndsWith(s, suffix) ==
    /\ Len(s) >= Len(suffix)
    /\ SubSeq(s, Len(s) - Len(suffix) + 1, Len(s)) = suffix

\* C8: the requests are GET /leaderboards, then GET .../gpus, then the POST,
\* each at most once and at most one in flight; the GPU fetch is issued only
\* after the leaderboard fetch returned 200 and a leaderboard and a runner
\* were selected, the POST only after the GPU fetch returned 200 and a GPU
\* was selected.
C8_CallsInOrder ==
    /\ inflight \in {0, 1}
    /\ inflight = 1 <=> pc \in {"await_leaderboards", "await_gpus", "await_submit"}
    /\ Len(calls) <= 3
    /\ Len(calls) >= 1 =>
        calls[1].method = "GET" /\ calls[1].url = LeaderboardsUrl
    /\ Len(calls) >= 2 =>
        /\ calls[2].method = "GET" /\ EndsWith(calls[2].url, SLASH \o GPUS)
        /\ Answered(lbResp) /\ lbResp.status = 200
        /\ selected_leaderboard # Unset /\ selected_runner # Unset
    /\ Len(calls) = 3 =>
        /\ calls[3].method = "POST"
        /\ Answered(gpuResp) /\ gpuResp.status = 200
        /\ selected_gpu # Unset
    /\ (pc = "await_leaderboards" => Len(calls) = 1)
    /\ (pc = "await_gpus" => Len(calls) = 2)
    /\ (pc = "await_submit" => Len(calls) = 3)

C8_Witness == Len(calls) = 3 /\ Answered(submitResp) /\ Exited

\* C9: every selection prompt has an input it accepts, also for an empty
\* list, so that a user who keeps answering gets past it.
C9_PromptAcceptsSomeInput ==
    /\ pc = "ask_leaderboard" =>
        \E input \in PromptInputs :
            Accepts(input, Choices(Len(leaderboard_names)))
    /\ pc = "ask_runner" =>
        \E input \in PromptInputs : Accepts(input, <<Str(1), Str(2)>>)
    /\ pc = "ask_gpu" =>
        \E input \in PromptInputs : Accepts(input, Choices(Len(gpus)))

\* C10: the run reports 'Failed to submit solution' only if the submission
\* was answered with a status other than 200; a 200 with any JSON body, null
\* included, ends with the result and the success message printed.
C10_FailureOnlyOnNon200 ==
    /\ (Exited /\ Printed("submit_failed")) => submitResp.status # 200
    /\ (Exited /\ Answered(submitResp) /\ submitResp.status = 200
          /\ ~JsonRaises(submitResp))
        => Printed("result_json") /\ Printed("success")

====
